---- MODULE Spec2Model ----
(***************************************************************************)
(* Model of mux-system.py: the episode selector parser                     *)
(* (parse_episode_list), the per-episode orchestration (mux_episode) and   *)
(* the batch driver (main).                                                *)
(*                                                                         *)
(* A string is a sequence of one-character strings.  A Python int is a     *)
(* sequence of decimal digit values, most significant first, so that it    *)
(* has no width.  The muxing library (muxtools), the logger, the file      *)
(* system and the memory are external: what a glob search finds, whether   *)
(* a call raises and what it raises, and how many elements a list can      *)
(* take are inputs, drawn with \E.                                         *)
(***************************************************************************)
EXTENDS Naturals, Integers, Sequences, FiniteSets, TLC

VARIABLES
    episode_arg,       \* args.episode: the selector expression
    mode,              \* RunMode: "NORMAL" or "DRYRUN"
    pc,                \* position in the function under analysis
    parsed,            \* what parse_episode_list did: value returned or error raised
    episode_numbers,   \* main's episode_numbers
    idx,               \* position of the for loop in episode_numbers (1-based)
    successful_muxes,  \* main's successful_muxes
    attempted,         \* episode numbers mux_episode was called with, in call order
    mux_calls,         \* how many times the external mux operation was invoked
    last,              \* the latest mux_episode call: its input, steps and outcome
    top_level_error,   \* an exception was raised inside main's outer try block
    main_log,          \* the latest log call of main that returned
    propagated,        \* the kind of the exception that left main ("none": none did)
    exit_code          \* main's return value (-1: main has not returned)

vars == <<episode_arg, mode, pc, parsed, episode_numbers, idx, successful_muxes,
          attempted, mux_calls, last, top_level_error, main_log, propagated, exit_code>>

----------------------------------------------------------------------------
(* Bounds *)

\* longest selector expression given to parse_episode_list on its own
MaxLen == 5
\* most comma-separated items in a selector expression given to main
MaxItems == 2
\* largest episode number a subtitle file name can carry in the "all" scan
MaxFound == 2
\* the elements a list can take when memory is tight
MaxMemory == 3
\* the elements a list can take when memory is ample
AmpleMemory == 1000000000

----------------------------------------------------------------------------
(* Characters and strings *)

\* characters for which str.isdigit() is true and int() succeeds: ASCII
\* digits and a decimal digit of another script; "U+0660" stands for the one
\* character ARABIC-INDIC DIGIT ZERO, which int() reads as 0
DecimalDigits == {"0", "1", "2", "U+0660"}
\* characters for which str.isdigit() is true although int() rejects them
OtherDigits == {"²"}
Whitespace == {" "}
\* the characters of the selectors given to parse_episode_list on its own
Alphabet == {"0", "1", "U+0660"} \cup OtherDigits \cup Whitespace \cup {"-", ",", "a"}
\* the items of the selectors given to main: 1, 1-2, 2-1 and a
MainItems == {<<"1">>, <<"1", "-", "2">>, <<"2", "-", "1">>, <<"a">>}

ALL == <<"a", "l", "l">>
\* the literal "all" and its near misses
AllLike == {ALL, <<"a", "l">>, ALL \o <<" ">>, <<" ">> \o ALL, ALL \o <<",", "1">>}

Strings(chars, n) == UNION {[1..k -> chars] : k \in 0..n}

\* the items joined by commas
RECURSIVE Join(_)
Join(items) == IF Len(items) = 1 THEN items[1]
               ELSE items[1] \o <<",">> \o Join(Tail(items))
\* the selector expressions of at most n items
Selectors(n) == {Join(items) : items \in UNION {[1..k -> MainItems] : k \in 1..n}}

DigitValue(c) == CASE c = "0" -> 0 [] c = "1" -> 1 [] c = "2" -> 2 [] c = "U+0660" -> 0

\* str.strip(): leading and trailing whitespace removed
RECURSIVE lstrip(_)
lstrip(s) == IF s # <<>> /\ Head(s) \in Whitespace THEN lstrip(Tail(s)) ELSE s
RECURSIVE rstrip(_)
rstrip(s) ==
    IF s # <<>> /\ s[Len(s)] \in Whitespace THEN rstrip(SubSeq(s, 1, Len(s) - 1)) ELSE s
strip(s) == rstrip(lstrip(s))

\* str.split(sep) for a one-character separator: always at least one part
RECURSIVE split(_, _)
split(s, sep) ==
    IF \E i \in 1..Len(s) : s[i] = sep
    THEN LET i == CHOOSE k \in 1..Len(s) : s[k] = sep /\ \A j \in 1..(k - 1) : s[j] # sep
         IN  <<SubSeq(s, 1, i - 1)>> \o split(SubSeq(s, i + 1, Len(s)), sep)
    ELSE <<s>>

\* "-" in ep_item
contains(s, c) == \E i \in 1..Len(s) : s[i] = c

\* str.isdigit(): non-empty and every character a digit character
isdigit(s) == s # <<>> /\ \A i \in 1..Len(s) : s[i] \in DecimalDigits \cup OtherDigits

\* the interpreter's limit on the digits of a string int() converts
\* (sys.get_int_max_str_digits(), 4300 unless reconfigured)
MaxStrDigits == 4300
\* a string of decimal digits one longer than the limit
LongDigits == [i \in 1..(MaxStrDigits + 1) |-> "1"]

\* the over-long string alone, followed and preceded by a digit character
\* that is not a decimal digit
LongInputs == {LongDigits, LongDigits \o <<"²">>, <<"²">> \o LongDigits}

\* the number of decimal digits s starts with
LeadingDigits(s) ==
    LET others == {i \in 1..Len(s) : s[i] \notin DecimalDigits}
    IN  IF others = {} THEN Len(s)
        ELSE (CHOOSE i \in others : \A j \in others : i <= j) - 1

\* int(s) raises ValueError unless s is a decimal literal of at most
\* MaxStrDigits digits; it is only ever applied to strings for which
\* isdigit() holds
int_raises(s) ==
    \/ s = <<>>
    \/ \E i \in 1..Len(s) : s[i] \notin DecimalDigits
    \/ Len(s) > MaxStrDigits

----------------------------------------------------------------------------
(* Python integers: digit sequences without leading zeros *)

RECURSIVE Trim(_)
Trim(d) == IF Len(d) > 1 /\ d[1] = 0 THEN Trim(Tail(d)) ELSE d

\* int(s) for a decimal literal s
int(s) == Trim([i \in 1..Len(s) |-> DigitValue(s[i])])

\* a < b
Less(a, b) ==
    \/ Len(a) < Len(b)
    \/ /\ Len(a) = Len(b)
       /\ \E i \in 1..Len(a) : a[i] < b[i] /\ \A j \in 1..(i - 1) : a[j] = b[j]

\* d with zeros in front, n digits long
Pad(d, n) == [i \in 1..n |-> IF i <= n - Len(d) THEN 0 ELSE d[i - (n - Len(d))]]

\* the first i digits of a - b, digit by digit from the right
RECURSIVE SubDigits(_, _, _, _)
SubDigits(a, b, i, borrow) ==
    IF i = 0 THEN <<>>
    ELSE LET d == a[i] - b[i] - borrow
         IN  SubDigits(a, b, i - 1, IF d < 0 THEN 1 ELSE 0)
                 \o <<IF d < 0 THEN d + 10 ELSE d>>
\* a - b for a >= b
Minus(a, b) == Trim(SubDigits(a, Pad(b, Len(a)), Len(a), 0))

\* the Python integer of a natural number of the model, and back
RECURSIVE PyInt(_)
PyInt(n) == IF n < 10 THEN <<n>> ELSE PyInt(n \div 10) \o <<n % 10>>
RECURSIVE Value(_)
Value(d) == IF d = <<>> THEN 0 ELSE 10 * Value(SubSeq(d, 1, Len(d) - 1)) + d[Len(d)]

\* sys.maxsize, the largest length a container reports: 2^63 - 1
SysMaxSize == <<9, 2, 2, 3, 3, 7, 2, 0, 3, 6, 8, 5, 4, 7, 7, 5, 8, 0, 7>>

\* range(start, stop) as a list
range(start, stop) == [i \in 1..(IF stop > start THEN stop - start ELSE 0) |-> start + i - 1]

\* sorted() not sorting (faulty variant)
sorted_unsorted(s) == s
\* sorted(): ascending
sorted(s) == SortSeq(s, LAMBDA a, b : a < b)

----------------------------------------------------------------------------
(* parse_episode_list *)

Raised(exc, msg, item) ==
    [raised |-> TRUE, exc |-> exc, message |-> msg, item |-> item, value |-> <<>>]
Returned(v) == [raised |-> FALSE, exc |-> "none", message |-> "", item |-> <<>>, value |-> v]
NotCalled ==
    [raised |-> FALSE, exc |-> "none", message |-> "not called", item |-> <<>>, value |-> <<>>]

InvalidRange == "Invalid episode range"
InvalidOrder == "Invalid episode range (start > end)"
InvalidNumber == "Invalid episode number"
InvalidLiteral == "invalid literal for int() with base 10"
ExceedsLimit == "Exceeds the limit (4300 digits) for integer string conversion"
TooLarge == "Python int too large to convert to C ssize_t"

\* the message of the ValueError int(s) raises: the digits are counted
\* before the rest of the string is looked at
int_message(s) == IF LeadingDigits(s) > MaxStrDigits THEN ExceedsLimit ELSE InvalidLiteral

\* how many elements a list can take before its growth raises MemoryError
Capacities == {MaxMemory, AmpleMemory}

\* the range branch expanding to range(start, end) (faulty variant: last episode lost)
expand_range_exclusive(start, end) == range(Value(start), Value(end))
\* range(start, end + 1), as a list
expand_range(start, end) == range(Value(start), Value(end) + 1)

\* len(range(start, end + 1)) does not fit a C ssize_t: end - start + 1 > sys.maxsize
range_too_large(start, end) == ~Less(Minus(end, start), SysMaxSize)
\* a list of n elements cannot grow by the end - start + 1 elements of the range
extend_no_memory(start, end, n, capacity) == ~Less(Minus(end, start), PyInt(capacity - n))
\* a list of n elements cannot grow by one
append_no_memory(n, capacity) == n + 1 > capacity

\* the range test accepting any two parts (faulty variant: the isdigit test forgotten)
invalid_range_len_only(range_parts) == Len(range_parts) # 2
\* len(range_parts) != 2 or not all(part.strip().isdigit() for part in range_parts)
invalid_range(range_parts) ==
    Len(range_parts) # 2 \/ ~ \A i \in 1..Len(range_parts) : isdigit(strip(range_parts[i]))

\* the order test never failing (faulty variant: the start > end check forgotten)
invalid_order_never(start, end) == FALSE
\* start > end
invalid_order(start, end) == Less(end, start)

\* the body of the for loop for one stripped item, episodes holding n elements:
\* the episodes it adds, or the error
parse_item(ep_item, n, capacity) ==
    IF contains(ep_item, "-")
    THEN LET range_parts == split(ep_item, "-") IN
         IF invalid_range(range_parts) THEN Raised("ValueError", InvalidRange, ep_item)
         ELSE IF int_raises(strip(range_parts[1]))
              THEN Raised("ValueError", int_message(strip(range_parts[1])),
                          strip(range_parts[1]))
         ELSE IF int_raises(strip(range_parts[2]))
              THEN Raised("ValueError", int_message(strip(range_parts[2])),
                          strip(range_parts[2]))
         ELSE LET start == int(strip(range_parts[1]))
                  end == int(strip(range_parts[2]))
              IN  IF invalid_order(start, end) THEN Raised("ValueError", InvalidOrder, ep_item)
                  ELSE IF range_too_large(start, end)
                       THEN Raised("OverflowError", TooLarge, ep_item)
                  ELSE IF extend_no_memory(start, end, n, capacity)
                       THEN Raised("MemoryError", "", ep_item)
                  ELSE Returned(expand_range(start, end))
    ELSE IF isdigit(ep_item)
    THEN IF int_raises(ep_item) THEN Raised("ValueError", int_message(ep_item), ep_item)
         ELSE IF append_no_memory(n, capacity) THEN Raised("MemoryError", "", ep_item)
         ELSE Returned(<<Value(int(ep_item))>>)
    ELSE Raised("ValueError", InvalidNumber, ep_item)

\* the for loop over the items from the i-th on, episodes being the list so far
RECURSIVE parse_items(_, _, _, _)
parse_items(items, i, episodes, capacity) ==
    IF i > Len(items) THEN Returned(sorted(episodes))
    ELSE LET r == parse_item(strip(items[i]), Len(episodes), capacity) IN
         IF r.raised THEN r ELSE parse_items(items, i + 1, episodes \o r.value, capacity)

\* parse_episode_list(episode_arg) where a list can take capacity elements
parse_episode_list(arg, capacity) ==
    IF arg = ALL THEN Returned(<<>>) ELSE parse_items(split(arg, ","), 1, <<>>, capacity)

\* ranges of more than sys.maxsize elements, of more elements than memory
\* takes, and a range in the wrong order between large numbers
BigNumber == [i \in 1..20 |-> "2"]
LargeNumber == [i \in 1..11 |-> "1"]
OverflowRange == <<"0", "-">> \o BigNumber
HugeRange == <<"0", "-">> \o LargeNumber
BigInputs == {OverflowRange, HugeRange, BigNumber \o <<"-", "0">>,
              OverflowRange \o <<",", "a">>, <<"a", ",">> \o OverflowRange}

----------------------------------------------------------------------------
(* mux_episode *)

\* the library calls of mux_episode, each of which can raise
FaultPoints == {"none", "Setup", "GlobSearch_video", "set_default_sub_timesource", "Premux",
                "GlobSearch_audio", "AudioFile", "GlobSearch_sub", "SubFile", "merge",
                "clean_garbage", "from_sub", "collect_fonts", "audio.to_track",
                "sub.to_track", "TmdbConfig", "mux", "print"}
\* what the except clauses tell apart: a LoggingException, another Exception,
\* and a BaseException that is no Exception (KeyboardInterrupt, SystemExit)
ExceptionKinds == {"LoggingException", "Exception", "BaseException"}
\* what a call of the logger does: it returns ("none") or raises
LogFaults == {"none"} \cup ExceptionKinds

\* What the outside world holds for one episode: whether the glob searches
\* find a video, audio and subtitle file, which library call (if any) raises
\* when it is made and what it raises, and what the log call of the episode
\* raises (if anything) when it is made.
EpisodeEnv == [video : BOOLEAN, audio : BOOLEAN, sub : BOOLEAN,
               fault : FaultPoints, kind : LogFaults, log : LogFaults]

NoEnv == [video |-> FALSE, audio |-> FALSE, sub |-> FALSE,
          fault |-> "none", kind |-> "none", log |-> "none"]
NoCall == [ep |-> -1, env |-> NoEnv, steps |-> <<>>, outcome |-> "not called",
           log |-> "none", exc |-> "none", counted |-> FALSE]

\* RunMode.DRYRUN not in mode, and video_search.paths is empty
video_missing(m, env) == m # "DRYRUN" /\ ~env.video

\* the required-files test that forgets the audio files (faulty variant)
assets_missing_sub_only(m, env) == ~env.sub
\* not subFiles, or: not audioFiles and RunMode.DRYRUN not in mode
assets_missing(m, env) == ~env.sub \/ (~env.audio /\ m # "DRYRUN")

\* the mux branch taken whatever the mode (faulty variant)
runs_mux_always(m) == TRUE
\* RunMode.DRYRUN not in mode, guarding the call of mux
runs_mux(m) == m # "DRYRUN"

\* the calls inside mux_episode's try ... except Exception: the arguments
\* of mux in evaluation order, mux itself, and the print of outfile.name
TrySteps == <<"audio.to_track", "sub.to_track", "TmdbConfig", "mux", "print">>
guarded(step) == \E k \in 1..Len(TrySteps) : TrySteps[k] = step
\* except Exception catches every kind but a BaseException
caught(step, kind) == guarded(step) /\ kind # "BaseException"

\* the library calls mux_episode makes when none of them raises, in order
\* ("merge" stands for the four merge calls), the log call it ends with and
\* what it returns
plan(m, env) ==
    LET s1 == <<"Setup">> IN
    IF video_missing(m, env)
    THEN [steps |-> s1 \o <<"GlobSearch_video">>, outcome |-> "skipped_video", log |-> "warn"]
    ELSE LET s2 == s1
                   \o (IF m # "DRYRUN"
                       THEN <<"GlobSearch_video", "set_default_sub_timesource", "Premux">>
                       ELSE <<>>)
                   \o <<"GlobSearch_audio">>
                   \o (IF env.audio THEN <<"AudioFile">> ELSE <<>>)
                   \o <<"GlobSearch_sub">>
                   \o (IF env.sub THEN <<"SubFile">> ELSE <<>>)
         IN  IF assets_missing(m, env)
             THEN [steps |-> s2,
                   outcome |-> IF ~env.sub THEN "skipped_sub" ELSE "skipped_audio",
                   log |-> "warn"]
             ELSE LET s3 == s2 \o <<"merge", "clean_garbage", "from_sub", "collect_fonts">> IN
                  IF runs_mux(m)
                  THEN [steps |-> s3 \o TrySteps, outcome |-> "muxed", log |-> "none"]
                  ELSE [steps |-> s3, outcome |-> "dry_run", log |-> "debug"]

\* the result of a path of mux_episode that ends with the log call named:
\* the call returns and so does mux_episode, or the call raises
logged(episode_number, env, steps, outcome, call) ==
    IF call # "none" /\ env.log # "none"
    THEN [ep |-> episode_number, env |-> env, steps |-> steps,
          outcome |-> "raised", log |-> "none", exc |-> env.log]
    ELSE [ep |-> episode_number, env |-> env, steps |-> steps,
          outcome |-> outcome, log |-> call, exc |-> "none"]

\* mux_episode(episode_number, ..., mode) in the world env: the plan cut at
\* the library call that raises; an Exception inside the try block is logged
\* and None is returned, any other exception leaves the function, and so
\* does what a log call raises
mux_episode(episode_number, m, env) ==
    LET p == plan(m, env)
        hit == {k \in 1..Len(p.steps) : p.steps[k] = env.fault}
    IN  IF hit = {}
        THEN logged(episode_number, env, p.steps, p.outcome, p.log)
        ELSE LET k == CHOOSE i \in hit : TRUE IN
             IF caught(env.fault, env.kind)
             THEN logged(episode_number, env, SubSeq(p.steps, 1, k), "mux_error", "error")
             ELSE [ep |-> episode_number, env |-> env, steps |-> SubSeq(p.steps, 1, k),
                   outcome |-> "raised", log |-> "none", exc |-> env.kind]

\* the log call mux_episode makes in the world env, "none" when it makes none
log_call(m, env) ==
    LET p == plan(m, env)
        hit == \E k \in 1..Len(p.steps) : p.steps[k] = env.fault
    IN  IF ~hit THEN p.log
        ELSE IF caught(env.fault, env.kind) THEN "error" ELSE "none"

\* the call named is made in the world env and returns
returns(m, env, call) ==
    /\ env.fault # call
    /\ \E k \in 1..Len(mux_episode(0, m, env).steps) : mux_episode(0, m, env).steps[k] = call

\* a world an episode can meet in mode m: only a call that is made can raise,
\* and only a search that returns can find a file
possible(m, env) ==
    /\ env.fault = "none" <=> env.kind = "none"
    /\ env.fault # "none" =>
          \E k \in 1..Len(plan(m, env).steps) : plan(m, env).steps[k] = env.fault
    /\ env.log # "none" => log_call(m, env) # "none"
    /\ env.video => returns(m, env, "GlobSearch_video")
    /\ env.audio => returns(m, env, "GlobSearch_audio")
    /\ env.sub => returns(m, env, "GlobSearch_sub")
NormalWorlds == {env \in EpisodeEnv : possible("NORMAL", env)}
DryRunWorlds == {env \in EpisodeEnv : possible("DRYRUN", env)}
Worlds(m) == IF m = "DRYRUN" THEN DryRunWorlds ELSE NormalWorlds

\* what a call of mux_episode can give in mode m, one result for each world
\* (the episode number is filled in by the caller)
NormalResults == {mux_episode(0, "NORMAL", env) : env \in NormalWorlds}
DryRunResults == {mux_episode(0, "DRYRUN", env) : env \in DryRunWorlds}
Results(m) == IF m = "DRYRUN" THEN DryRunResults ELSE NormalResults

\* mux_episode returned a Path (result is not None)
returned_path(r) == r.outcome = "muxed"

----------------------------------------------------------------------------
(* main *)

\* try: episode_numbers = parse_episode_list(episode_arg)
\* except ValueError: log.error(...); return 2
\* exc is the kind of the exception that goes on to the outer except clauses:
\* what the parser raised that is no ValueError, or what log.error raised
after_parse(r, log_raises) ==
    IF r.raised /\ r.exc = "ValueError"
    THEN IF log_raises = "none"
         THEN [pc |-> "done", exit_code |-> 2, episode_numbers |-> <<>>,
               exc |-> "none", logged |-> "error: parse"]
         ELSE [pc |-> "done", exit_code |-> -1, episode_numbers |-> <<>>,
               exc |-> log_raises, logged |-> "none"]
    ELSE IF r.raised
    THEN [pc |-> "done", exit_code |-> -1, episode_numbers |-> <<>>,
          exc |-> "Exception", logged |-> "none"]
    ELSE [pc |-> "resolve", exit_code |-> -1, episode_numbers |-> r.value,
          exc |-> "none", logged |-> "none"]

\* every episode counted (faulty variant)
counts_as_success_always(r, m) == TRUE
\* result is not None or mode == RunMode.DRYRUN
counts_as_success(r, m) == returned_path(r) \/ m = "DRYRUN"

\* the run reported as a success whatever was muxed (faulty variant)
exit_status_always_zero(successful) == 0
\* return 0 if successful_muxes > 0 else 1
exit_status(successful) == IF successful > 0 THEN 0 ELSE 1

\* the outer except clauses for an exception of the kind given, raised inside
\* the outer try block: except LoggingException: log.crit(...); return 1, and
\* except Exception: log.error(...); return 1.  A BaseException is caught by
\* neither, and what the log call of a clause raises leaves main as well.
outer_except(kind, log_raises) ==
    IF kind = "BaseException"
    THEN [exit_code |-> -1, propagated |-> kind, logged |-> "none"]
    ELSE IF log_raises # "none"
    THEN [exit_code |-> -1, propagated |-> log_raises, logged |-> "none"]
    ELSE [exit_code |-> 1, propagated |-> "none",
          logged |-> IF kind = "LoggingException" THEN "crit" ELSE "error: unexpected"]

\* main ends in the outer except clauses
OuterExcept(kind) ==
    \E log_raises \in LogFaults :
       LET h == outer_except(kind, log_raises)
       IN  /\ pc' = "done"
           /\ top_level_error' = TRUE
           /\ exit_code' = h.exit_code
           /\ propagated' = h.propagated
           /\ main_log' = IF h.logged = "none" THEN main_log ELSE h.logged

\* main goes on to the position given, or returns, after the log call named
Goes(position, code, logged_call) ==
    /\ pc' = position
    /\ exit_code' = code
    /\ main_log' = logged_call
    /\ UNCHANGED <<top_level_error, propagated>>

\* the selectors given to main that name ranges too large for a list
MainBigInputs == {OverflowRange, OverflowRange \o <<",", "a">>, HugeRange}

Init ==
    /\ episode_arg \in Selectors(MaxItems) \cup {ALL, LongDigits} \cup MainBigInputs
    /\ mode \in {"NORMAL", "DRYRUN"}
    /\ pc = "start"
    /\ parsed = NotCalled
    /\ episode_numbers = <<>>
    /\ idx = 1
    /\ successful_muxes = 0
    /\ attempted = <<>>
    /\ mux_calls = 0
    /\ last = NoCall
    /\ top_level_error = FALSE
    /\ main_log = "none"
    /\ propagated = "none"
    /\ exit_code = -1

\* if args.dry_run: log.info(...), before the outer try block: what the log
\* call raises leaves main
SetMode ==
    /\ pc = "start"
    /\ IF mode = "DRYRUN"
       THEN \E log_raises \in LogFaults :
               IF log_raises = "none"
               THEN Goes("mkdir", -1, "info: dry-run")
               ELSE /\ pc' = "done"
                    /\ propagated' = log_raises
                    /\ UNCHANGED <<exit_code, main_log, top_level_error>>
       ELSE Goes("mkdir", -1, main_log)
    /\ UNCHANGED <<episode_arg, mode, parsed, episode_numbers, idx, successful_muxes,
                   attempted, mux_calls, last>>

\* Path(args.outdir).mkdir(exist_ok=True, parents=True): it succeeds, or it
\* raises inside the outer try block
MakeOutdir ==
    /\ pc = "mkdir"
    /\ \/ Goes("parse", -1, main_log)
       \/ \E kind \in {"Exception", "BaseException"} : OuterExcept(kind)
    /\ UNCHANGED <<episode_arg, mode, parsed, episode_numbers, idx, successful_muxes,
                   attempted, mux_calls, last>>

\* the inner try block around parse_episode_list
ParseEpisodes ==
    /\ pc = "parse"
    /\ \E capacity \in Capacities, log_raises \in LogFaults :
       \E r \in {parse_episode_list(episode_arg, capacity)} :
          LET a == after_parse(r, log_raises)
          IN  /\ parsed' = r
              /\ episode_numbers' = a.episode_numbers
              /\ IF a.exc = "none"
                 THEN Goes(a.pc, a.exit_code,
                           IF a.logged = "none" THEN main_log ELSE a.logged)
                 ELSE OuterExcept(a.exc)
    /\ UNCHANGED <<episode_arg, mode, idx, successful_muxes, attempted, mux_calls, last>>

\* the set of episode numbers as a sorted list
RECURSIVE SetToSeq(_)
SetToSeq(S) == IF S = {} THEN <<>>
               ELSE LET x == CHOOSE y \in S : TRUE IN <<x>> \o SetToSeq(S \ {x})

\* "all": the recursive glob over the subtitle directory raises, or the
\* numbers read from the file names are collected, sorted and must not be
\* empty; the outcome is logged
ResolveAll ==
    /\ pc = "resolve"
    /\ episode_numbers = <<>> /\ episode_arg = ALL
    /\ \/ /\ \E kind \in ExceptionKinds : OuterExcept(kind)
          /\ UNCHANGED episode_numbers
       \/ \E found \in SUBSET (1..MaxFound), log_raises \in LogFaults :
            /\ episode_numbers' = sorted(SetToSeq(found))
            /\ IF log_raises # "none" THEN OuterExcept(log_raises)
               ELSE IF found = {} THEN Goes("done", 1, "error: no episodes found")
               ELSE Goes("loop", -1, "info: found")
    /\ successful_muxes' = 0
    /\ UNCHANGED <<episode_arg, mode, parsed, idx, attempted, mux_calls, last>>

\* a selector other than "all": the list must not be empty, then the loop starts
EnterLoop ==
    /\ pc = "resolve"
    /\ ~(episode_numbers = <<>> /\ episode_arg = ALL)
    /\ IF episode_numbers = <<>>
       THEN \E log_raises \in LogFaults :
               IF log_raises # "none" THEN OuterExcept(log_raises)
               ELSE Goes("done", 1, "error: no episodes specified")
       ELSE Goes("loop", -1, main_log)
    /\ successful_muxes' = 0
    /\ UNCHANGED <<episode_arg, mode, parsed, episode_numbers, idx, attempted, mux_calls,
                   last>>

\* one iteration of: for ep in episode_numbers: result = mux_episode(ep, ...)
\* in one of the worlds of the mode; an exception that leaves mux_episode
\* ends the loop in the outer except clauses
MuxNext ==
    /\ pc = "loop"
    /\ idx <= Len(episode_numbers)
    /\ \E result \in Results(mode) : \E r \in {[result EXCEPT !.ep = episode_numbers[idx]]} :
       LET escaped == r.outcome = "raised"
           counted == ~escaped /\ counts_as_success(r, mode)
       IN  /\ attempted' = Append(attempted, episode_numbers[idx])
           /\ mux_calls' = mux_calls + Cardinality({k \in 1..Len(r.steps) : r.steps[k] = "mux"})
           /\ last' = r @@ [counted |-> counted]
           /\ IF escaped
              THEN /\ OuterExcept(r.exc)
                   /\ UNCHANGED <<idx, successful_muxes>>
              ELSE /\ successful_muxes' = successful_muxes + (IF counted THEN 1 ELSE 0)
                   /\ idx' = idx + 1
                   /\ UNCHANGED <<pc, top_level_error, exit_code, main_log, propagated>>
    /\ UNCHANGED <<episode_arg, mode, parsed, episode_numbers>>

\* the loop is over: log the count and return
Finish ==
    /\ pc = "loop"
    /\ idx > Len(episode_numbers)
    /\ \E log_raises \in LogFaults :
          IF log_raises # "none" THEN OuterExcept(log_raises)
          ELSE Goes("done", exit_status(successful_muxes), "info: complete")
    /\ UNCHANGED <<episode_arg, mode, parsed, episode_numbers, idx, successful_muxes,
                   attempted, mux_calls, last>>

Next ==
    SetMode \/ MakeOutdir \/ ParseEpisodes \/ ResolveAll \/ EnterLoop \/ MuxNext \/ Finish

Spec == Init /\ [][Next]_vars

----------------------------------------------------------------------------
(* parse_episode_list on its own: one call on a selector of at most MaxLen characters *)

InitParse ==
    /\ episode_arg \in Strings(Alphabet, MaxLen) \cup AllLike \cup LongInputs \cup BigInputs
    /\ mode = "NORMAL"
    /\ pc = "call"
    /\ parsed = NotCalled
    /\ episode_numbers = <<>>
    /\ idx = 1
    /\ successful_muxes = 0
    /\ attempted = <<>>
    /\ mux_calls = 0
    /\ last = NoCall
    /\ top_level_error = FALSE
    /\ main_log = "none"
    /\ propagated = "none"
    /\ exit_code = -1

ParseCall ==
    /\ pc = "call"
    /\ \E capacity \in Capacities : parsed' = parse_episode_list(episode_arg, capacity)
    /\ pc' = "returned"
    /\ UNCHANGED <<episode_arg, mode, episode_numbers, idx, successful_muxes, attempted,
                   mux_calls, last, top_level_error, main_log, propagated, exit_code>>

NextParse == ParseCall

SpecParse == InitParse /\ [][NextParse]_vars

----------------------------------------------------------------------------
(* What a selector expression denotes, stated without the parser *)

\* the comma-separated items, each trimmed of surrounding whitespace
ItemsOf(arg) == [i \in 1..Len(split(arg, ",")) |-> strip(split(arg, ",")[i])]

\* a pure non-negative integer: one or more decimal digits and nothing else
PureInt(s) == s # <<>> /\ \A i \in 1..Len(s) : s[i] \in DecimalDigits

RECURSIVE Pow10(_)
Pow10(n) == IF n = 0 THEN 1 ELSE 10 * Pow10(n - 1)
RECURSIVE DecimalValue(_)
DecimalValue(s) ==
    IF s = <<>> THEN 0 ELSE DigitValue(Head(s)) * Pow10(Len(s) - 1) + DecimalValue(Tail(s))

\* a pure integer without its leading zeros
Significant(s) ==
    LET nonzero == {i \in 1..Len(s) : DigitValue(s[i]) # 0}
    IN  IF nonzero = {} THEN <<"0">>
        ELSE SubSeq(s, CHOOSE i \in nonzero : \A j \in nonzero : i <= j, Len(s))
\* a <= b for pure integers of any length
NumLE(a, b) ==
    LET x == Significant(a)
        y == Significant(b)
    IN  \/ Len(x) < Len(y)
        \/ /\ Len(x) = Len(y)
           /\ \A i \in 1..Len(x) :
                 (\A j \in 1..(i - 1) : DigitValue(x[j]) = DigitValue(y[j]))
                     => DigitValue(x[i]) <= DigitValue(y[i])

\* the positions of "-" in an item
Dashes(item) == {i \in 1..Len(item) : item[i] = "-"}
DashAt(item) == CHOOSE i \in Dashes(item) : TRUE
LeftOf(item) == SubSeq(item, 1, DashAt(item) - 1)
RightOf(item) == SubSeq(item, DashAt(item) + 1, Len(item))

\* "A-B" with A and B pure non-negative integers as written
StrictRange(item) ==
    Cardinality(Dashes(item)) = 1 /\ PureInt(LeftOf(item)) /\ PureInt(RightOf(item))
\* "A-B" with A and B pure non-negative integers once each is trimmed
TrimmedRange(item) ==
    Cardinality(Dashes(item)) = 1 /\ PureInt(strip(LeftOf(item))) /\ PureInt(strip(RightOf(item)))
LowerOf(item) == DecimalValue(strip(LeftOf(item)))
UpperOf(item) == DecimalValue(strip(RightOf(item)))

\* no longer than the integer conversion allows
WithinLimit(s) == Len(s) <= MaxStrDigits
\* a pure non-negative integer the conversion reads
Readable(s) == PureInt(s) /\ WithinLimit(s)
\* a trimmed range both of whose ends the conversion reads
ReadableRange(item) ==
    TrimmedRange(item) /\ WithinLimit(strip(LeftOf(item))) /\ WithinLimit(strip(RightOf(item)))

\* a range whose start is greater than its end
BadOrder(item) == ReadableRange(item) /\ ~NumLE(strip(LeftOf(item)), strip(RightOf(item)))
\* an item of the selector grammar
ValidItem(item) ==
    Readable(item) \/ (ReadableRange(item) /\ NumLE(strip(LeftOf(item)), strip(RightOf(item))))
\* an item made of digit characters of which one is not a decimal digit
HasOtherDigit(s) == \E i \in 1..Len(s) : s[i] \in OtherDigits

\* the episode numbers one item denotes
Denoted(item) ==
    IF Readable(item) THEN {DecimalValue(item)}
    ELSE IF ReadableRange(item) THEN LowerOf(item)..UpperOf(item)
    ELSE {}

Count(seq, v) == Cardinality({k \in 1..Len(seq) : seq[k] = v})
Elements(seq) == {seq[k] : k \in 1..Len(seq)}
Ascending(seq) == \A i \in 1..Len(seq) : \A j \in i..Len(seq) : seq[i] <= seq[j]

ParseReturned == pc = "returned" /\ ~parsed.raised
ParseRaised == pc = "returned" /\ parsed.raised
\* the parser failed for want of room: the length of a range does not fit, or
\* the list cannot grow
NoRoom == parsed.raised /\ parsed.exc \in {"OverflowError", "MemoryError"}
\* what raised for want of room is an item of the grammar that stands before
\* the k-th item
RoomFailedBefore(items, k) ==
    /\ parsed.exc = "OverflowError" => parsed.message = TooLarge
    /\ \E j \in 1..(k - 1) :
          /\ items[j] = parsed.item
          /\ ValidItem(items[j])
          /\ parsed.exc = "OverflowError" => ReadableRange(items[j])

----------------------------------------------------------------------------
(* Claims about parse_episode_list, checked under SpecParse *)

\* C1: for every accepted selector other than "all", the returned list is
\* ascending and holds each episode number once per item that denotes it: a
\* single integer denotes itself, a range A-B every integer from A to B; no
\* deduplication, and the order of the items in the input does not matter.
C1_SortedMultisetUnion ==
    (ParseReturned /\ episode_arg # ALL) =>
        LET items == ItemsOf(episode_arg)
            denoted == UNION {Denoted(items[i]) : i \in 1..Len(items)}
        IN  /\ Ascending(parsed.value)
            /\ Elements(parsed.value) = denoted
            /\ \A v \in denoted :
                 Count(parsed.value, v) =
                     Cardinality({i \in 1..Len(items) : v \in Denoted(items[i])})

\* a selector is accepted whose items come in descending order and whose
\* range overlaps a single episode: the result is sorted and keeps the duplicate
C1_Witness ==
    /\ ParseReturned
    /\ episode_arg # ALL
    /\ \E i \in 1..Len(parsed.value) : \E j \in 1..Len(parsed.value) :
          i # j /\ parsed.value[i] = parsed.value[j]
    /\ LET items == ItemsOf(episode_arg)
       IN  /\ Len(items) = 2
           /\ TrimmedRange(items[1])
           /\ PureInt(items[2])
           /\ DecimalValue(items[2]) < UpperOf(items[1])

\* C2 (as stated): an item is accepted only if it is a pure non-negative
\* integer or a range A-B whose A and B are both pure non-negative integers;
\* any other item makes the whole parse fail and no list is returned.
C2_AsStated ==
    (pc = "returned" /\ episode_arg # ALL) =>
        LET items == ItemsOf(episode_arg)
        IN  (\E i \in 1..Len(items) : ~PureInt(items[i]) /\ ~StrictRange(items[i])) =>
                (parsed.raised /\ parsed.value = <<>>)

\* C2 (amended): an item is accepted only if it is a pure non-negative integer
\* or a range A-B whose A and B are pure non-negative integers once each is
\* trimmed of surrounding whitespace, each integer no longer than the integer
\* conversion's digit limit; any other item makes the parse fail and no list
\* is returned.  The error is that of the first item that is not valid:
\* invalid-range for an item with "-" that is no such range, invalid-item for
\* an item without "-" that is not made of digit characters, the integer
\* conversion's error for digit characters that are not decimal digits or
\* that exceed the digit limit, or the invalid-order error of an earlier
\* range -- unless an item before it is too large for the list, which fails
\* with OverflowError or MemoryError.
C2_Amended ==
    (pc = "returned" /\ episode_arg # ALL) =>
        LET items == ItemsOf(episode_arg)
            bad == {i \in 1..Len(items) : ~ValidItem(items[i])}
            unreadable == {i \in 1..Len(items) : ~Readable(items[i]) /\ ~ReadableRange(items[i])}
        IN  /\ ~parsed.raised => unreadable = {}
            /\ unreadable # {} =>
                 LET k == CHOOSE i \in bad : \A j \in bad : i <= j  \* the first offending item
                     item == items[k]
                 IN  /\ parsed.raised
                     /\ parsed.value = <<>>
                     /\ parsed.exc \in {"ValueError", "OverflowError", "MemoryError"}
                     /\ NoRoom => RoomFailedBefore(items, k)
                     /\ parsed.exc = "ValueError" =>
                          /\ parsed.message \in {InvalidNumber, InvalidRange, InvalidLiteral,
                                                 ExceedsLimit, InvalidOrder}
                          /\ parsed.message = InvalidOrder <=> BadOrder(item)
                          /\ parsed.message = InvalidOrder => parsed.item = item
                          /\ parsed.message \in {InvalidLiteral, ExceedsLimit} <=>
                               /\ ~BadOrder(item)
                               /\ IF Dashes(item) = {}
                                  THEN isdigit(item)
                                  ELSE /\ Cardinality(Dashes(item)) = 1
                                       /\ isdigit(strip(LeftOf(item)))
                                       /\ isdigit(strip(RightOf(item)))
                          /\ parsed.message = InvalidLiteral => HasOtherDigit(parsed.item)
                          /\ parsed.message = ExceedsLimit => ~WithinLimit(parsed.item)
                          /\ parsed.message = InvalidRange <=>
                               /\ Dashes(item) # {}
                               /\ parsed.message \notin {InvalidOrder, InvalidLiteral, ExceedsLimit}
                          /\ parsed.message \in {InvalidRange, InvalidNumber} => parsed.item = item

\* a malformed item follows a valid one and the parse fails naming it
C2_Witness ==
    /\ ParseRaised
    /\ parsed.message \in {InvalidNumber, InvalidRange}
    /\ LET items == ItemsOf(episode_arg)
       IN  /\ Len(items) >= 2
           /\ ValidItem(items[1])
           /\ ~PureInt(items[2]) /\ ~TrimmedRange(items[2])
           /\ parsed.item = items[2]

\* C3 (as stated): a range A-B with A > B, wherever it stands among the
\* items, makes the parse fail with the invalid-order error.
C3_AsStated ==
    (pc = "returned" /\ episode_arg # ALL) =>
        LET items == ItemsOf(episode_arg)
        IN  (\E i \in 1..Len(items) : BadOrder(items[i])) =>
                /\ parsed.raised
                /\ parsed.value = <<>>
                /\ parsed.message = InvalidOrder

\* C3 (amended): a range A-B with A > B, wherever it stands among the items,
\* makes the parse fail and no list is returned; the error is the
\* invalid-order error naming that range when every item before it is valid
\* and the list has room for them, and otherwise the error of the first item
\* that is not valid or cannot be held.
C3_Amended ==
    (pc = "returned" /\ episode_arg # ALL) =>
        LET items == ItemsOf(episode_arg)
            bad == {i \in 1..Len(items) : ~ValidItem(items[i])}
        IN  (\E i \in 1..Len(items) : BadOrder(items[i])) =>
                LET k == CHOOSE i \in bad : \A j \in bad : i <= j  \* the first offending item
                IN  /\ parsed.raised
                    /\ parsed.value = <<>>
                    /\ NoRoom => RoomFailedBefore(items, k)
                    /\ ~NoRoom =>
                         /\ parsed.exc = "ValueError"
                         /\ IF BadOrder(items[k])
                            THEN parsed.message = InvalidOrder /\ parsed.item = items[k]
                            ELSE parsed.message \in {InvalidNumber, InvalidRange,
                                                     InvalidLiteral, ExceedsLimit}

\* a range with start > end stands after a valid item and the parse fails
\* with the invalid-order error
C3_Witness ==
    /\ ParseRaised
    /\ parsed.message = InvalidOrder
    /\ LET items == ItemsOf(episode_arg)
       IN  Len(items) >= 2 /\ ValidItem(items[1]) /\ BadOrder(items[2])

\* C9: parse_episode_list returns the empty list for the literal "all" and
\* for no other expression: any other expression raises or yields at least
\* one episode number.
C9_EmptyOnlyForAll ==
    pc = "returned" =>
        /\ episode_arg = ALL => (~parsed.raised /\ parsed.value = <<>>)
        /\ episode_arg # ALL => (parsed.raised \/ Len(parsed.value) >= 1)

\* "all" was parsed and gave the empty list
C9_Witness == ParseReturned /\ episode_arg = ALL /\ parsed.value = <<>>

----------------------------------------------------------------------------
(* Claims about main and mux_episode, checked under Spec *)

\* the selector is not "all" and one of its items is not valid
Malformed(arg) ==
    arg # ALL /\ \E i \in 1..Len(ItemsOf(arg)) : ~ValidItem(ItemsOf(arg)[i])
ParseReached == parsed # NotCalled
\* no exception was raised inside main's outer try block and none left main
NoException == ~top_level_error /\ propagated = "none"
\* main has returned the code given
Exits(code) == pc = "done" /\ exit_code = code /\ propagated = "none"
\* an exception has left main, which returns no exit code
Propagates == pc = "done" /\ exit_code = -1 /\ propagated \in ExceptionKinds
Called == last.outcome # "not called"
Skipped == {"skipped_video", "skipped_audio", "skipped_sub"}
LastSteps == Elements(last.steps)
\* the search named was made for the last episode, returned and found nothing
Missing(search, found) == search \in LastSteps /\ last.env.fault # search /\ ~found
MissingAsset ==
    \/ Missing("GlobSearch_video", last.env.video)
    \/ Missing("GlobSearch_audio", last.env.audio)
    \/ Missing("GlobSearch_sub", last.env.sub)
\* the loop stands before its next entry, or it ran through the whole list
Continuing == pc = "loop" /\ idx = Len(attempted) + 1
Complete == pc = "done" /\ attempted = episode_numbers
\* an exception left mux_episode: the loop ended at that episode in main's
\* outer except clauses
LoopBroken ==
    /\ pc = "done" /\ top_level_error /\ idx = Len(attempted)
    /\ Exits(1) \/ Propagates
\* the calls only a normal run makes before the try block
VideoSteps == {"GlobSearch_video", "set_default_sub_timesource", "Premux"}
\* the calls only a normal run makes: those and the ones of the try block
NormalOnlySteps == VideoSteps \cup Elements(TrySteps)

\* C4: when the selector is malformed, parse_episode_list fails, main reports
\* the error and returns 2, and on that run mux_episode is never called and
\* the external mux operation never invoked (stated for the runs in which
\* every log call returns: main then ends in an except clause of the outer
\* try block only for what the parser raised).
C4_MalformedExitsTwo ==
    (Malformed(episode_arg) /\ ParseReached /\ propagated = "none"
        /\ ~(parsed.exc = "ValueError" /\ top_level_error)) =>
        /\ parsed.raised
        /\ Exits(2) /\ main_log = "error: parse"
        /\ attempted = <<>> /\ mux_calls = 0 /\ ~Called

\* a selector whose second item is malformed and whose first names a range
\* too large for a list: the parser fails with OverflowError and main returns
\* 1 after logging an unexpected error
C4_Witness ==
    /\ Malformed(episode_arg)
    /\ ParseReached /\ parsed.raised /\ parsed.exc = "OverflowError"
    /\ Exits(1) /\ main_log = "error: unexpected"
    /\ ValidItem(ItemsOf(episode_arg)[1])
    /\ ~ValidItem(ItemsOf(episode_arg)[2])

\* C5 (as stated): whatever the outcome of an episode, the loop goes on to
\* the next entry, so that every entry of the list is attempted.
C5_AsStated == Called => (Continuing \/ Complete)

\* C5 (amended): a missing asset only skips the episode: mux_episode returns
\* without invoking the mux operation and the loop goes on, so that the
\* entries are attempted once each, in list order, ascending, whatever the
\* earlier episodes returned -- unless an exception leaves mux_episode (a
\* library call outside the try block raises, a call inside it raises what is
\* no Exception, or a log call raises), which ends the loop at that episode.
C5_Amended ==
    /\ Len(attempted) <= Len(episode_numbers)
    /\ attempted = SubSeq(episode_numbers, 1, Len(attempted))
    /\ Ascending(attempted)
    /\ (Called /\ MissingAsset) => ("mux" \notin LastSteps /\ last.outcome # "muxed")
    /\ (Called /\ mode = "NORMAL" /\ MissingAsset) => last.outcome \in Skipped \cup {"raised"}
    /\ last.outcome \in Skipped =>
          (MissingAsset /\ last.log = "warn" /\ (Continuing \/ Complete))
    /\ (Called /\ last.outcome # "raised") => (Continuing \/ Complete)
    /\ last.outcome = "raised" => LoopBroken

\* an episode has just been skipped for a missing asset after an earlier
\* episode was attempted, and the loop stands before a further entry
C5_Witness ==
    /\ last.outcome \in Skipped
    /\ mode = "NORMAL"
    /\ pc = "loop"
    /\ Len(attempted) >= 2
    /\ idx <= Len(episode_numbers)

\* C6 (as stated): a fatal failure of a library call while processing an
\* episode is not counted as a success and the batch continues.
C6_AsStated ==
    last.outcome \in {"mux_error", "raised"} =>
        (~last.counted /\ (Continuing \/ Complete))

\* C6 (amended): an Exception raised inside the try block (building the audio
\* and subtitle tracks, the TMDB configuration, the mux operation, printing
\* the output name) is logged as an error for that episode, the episode is
\* not counted as a success and the batch continues.  Any other exception
\* leaves mux_episode and ends the loop: one raised by another library call,
\* one raised inside the try block that is no Exception, one raised by a log
\* call.  main then returns 1 after logging it as critical (a
\* LoggingException) or as unexpected (another Exception), or the exception
\* leaves main: it is no Exception, or the log call of the clause raised.
C6_Amended ==
    /\ last.outcome = "mux_error" =>
          /\ caught(last.env.fault, last.env.kind)
          /\ last.env.log = "none"
          /\ last.log = "error"
          /\ last.exc = "none"
          /\ ~last.counted
          /\ Continuing \/ Complete
    /\ (Called /\ last.env.fault \in LastSteps /\ caught(last.env.fault, last.env.kind)) =>
          IF last.env.log = "none"
          THEN last.outcome = "mux_error"
          ELSE last.outcome = "raised" /\ last.exc = last.env.log
    /\ last.outcome = "raised" =>
          /\ \/ /\ last.env.fault # "none"
                /\ ~caught(last.env.fault, last.env.kind)
                /\ last.exc = last.env.kind
             \/ /\ last.env.log # "none"
                /\ last.env.fault = "none" \/ caught(last.env.fault, last.env.kind)
                /\ last.exc = last.env.log
          /\ last.exc \in ExceptionKinds
          /\ ~last.counted
          /\ LoopBroken
          /\ Exits(1) =>
                /\ last.exc # "BaseException"
                /\ main_log = "crit" <=> last.exc = "LoggingException"
                /\ main_log = "error: unexpected" <=> last.exc = "Exception"
          /\ last.exc = "BaseException" => (Propagates /\ propagated = "BaseException")
    /\ successful_muxes <= Len(attempted)
    /\ mode = "NORMAL" => successful_muxes <= mux_calls

\* a call inside the try block has just failed for an episode before the mux
\* operation was reached, nothing was counted for it, and the loop stands
\* before a further entry
C6_Witness ==
    /\ last.outcome = "mux_error"
    /\ "mux" \notin LastSteps
    /\ pc = "loop"
    /\ idx <= Len(episode_numbers)
    /\ successful_muxes < Len(attempted)

\* C7 (as stated): when no exception reaches the top level, the exit code is
\* 0 exactly when an episode was processed successfully or the run is a dry
\* run, 2 exactly when the selector is malformed, and 1 otherwise.
C7_AsStated ==
    (pc = "done" /\ NoException) =>
        /\ exit_code \in {0, 1, 2}
        /\ exit_code = 0 <=> (successful_muxes > 0 \/ mode = "DRYRUN")
        /\ exit_code = 2 <=> Malformed(episode_arg)

\* C7 (amended): main returns 2 exactly when the parser fails with a
\* ValueError and the log call reporting it returns; 0 exactly when no
\* exception was raised at the top level, the selector parsed, the loop ran
\* through a non-empty episode list and the run is a dry run or at least one
\* episode was muxed; 1 in every other case in which it returns.  It returns
\* nothing when an exception leaves it: one that is no Exception, or one
\* raised by a log call outside the try block or in an except clause.
C7_Amended ==
    /\ pc # "done" => (exit_code = -1 /\ propagated = "none")
    /\ pc = "done" =>
        /\ exit_code \in {-1, 0, 1, 2}
        /\ exit_code = -1 <=> propagated # "none"
        /\ exit_code = 2 <=>
              (ParseReached /\ parsed.raised /\ parsed.exc = "ValueError" /\ NoException)
        /\ exit_code = 2 => Malformed(episode_arg)
        /\ exit_code = 0 <=>
              /\ NoException
              /\ ParseReached /\ ~parsed.raised
              /\ episode_numbers # <<>>
              /\ attempted = episode_numbers
              /\ mode = "DRYRUN" \/ successful_muxes > 0
        /\ top_level_error => exit_code \in {1, -1}
        /\ propagated # "none" => (top_level_error \/ (mode = "DRYRUN" /\ ~ParseReached))
    /\ mode = "NORMAL" => successful_muxes <= mux_calls

\* a normal run went through a list of two or more episodes, muxed none and
\* returned 1
C7_Witness ==
    /\ Exits(1) /\ NoException
    /\ mode = "NORMAL"
    /\ Len(episode_numbers) >= 2
    /\ attempted = episode_numbers

\* C8: in a dry run over a valid selector other than "all", every episode
\* whose processing does not raise reaches the "Dry run completed" step of
\* mux_episode.
C8_DryRunCompletes ==
    (mode = "DRYRUN" /\ episode_arg # ALL /\ ~Malformed(episode_arg)
        /\ Called /\ last.outcome # "raised") =>
        last.outcome = "dry_run"

\* the run of the repository's test, --dry-run 1, where no subtitle file is
\* found: the episode is skipped with a warning before the "Dry run
\* completed" step, and main still returns 0
C8_Witness ==
    /\ mode = "DRYRUN"
    /\ episode_arg = <<"1">>
    /\ attempted = <<1>>
    /\ last.outcome = "skipped_sub" /\ last.log = "warn"
    /\ "GlobSearch_sub" \in LastSteps /\ ~last.env.sub
    /\ Exits(0) /\ main_log = "info: complete"

\* the worlds of a normal run that agree with the world of the last episode
\* on all a dry run observes: the video search finds a file or not, and when
\* no call of the dry run raised, a call only a normal run makes may raise
SameWorlds ==
    LET faults == IF last.env.fault = "none"
                  THEN {<<"none", "none">>} \cup (NormalOnlySteps \X ExceptionKinds)
                  ELSE {<<last.env.fault, last.env.kind>>}
    IN  {[last.env EXCEPT !.video = v, !.fault = f[1], !.kind = f[2]] :
            v \in BOOLEAN, f \in faults}

\* C10 (as stated): in a dry run the mux operation is never invoked, and
\* every other library call a normal run makes for the episode in the same
\* world is made.
C10_AsStated ==
    (mode = "DRYRUN" /\ Called) =>
        /\ mux_calls = 0
        /\ "mux" \notin LastSteps
        /\ \A env \in SameWorlds :
              Elements(mux_episode(last.ep, "NORMAL", env).steps) \ {"mux"} \subseteq LastSteps

\* C10 (amended): in a dry run the mux operation is never invoked, nor are
\* the video search, set_default_sub_timesource, Premux, the building of the
\* audio and subtitle tracks, the TMDB configuration and the print of the
\* output name; every other library call a normal run makes for the episode
\* in the same world (audio and subtitle search, merging and cleaning the
\* subtitle layers, chapters, fonts) is made.
C10_Amended ==
    (mode = "DRYRUN" /\ Called) =>
        /\ mux_calls = 0
        /\ "mux" \notin LastSteps
        /\ LastSteps \cap NormalOnlySteps = {}
        /\ \A env \in SameWorlds :
              (Elements(mux_episode(last.ep, "NORMAL", env).steps) \ NormalOnlySteps)
                  \subseteq LastSteps
        /\ (last.env.sub /\ last.env.fault = "none") =>
              {"GlobSearch_audio", "GlobSearch_sub", "SubFile", "merge", "clean_garbage",
               "from_sub", "collect_fonts"} \subseteq LastSteps

\* a dry run has completed an episode for which a normal run that finds the
\* video makes every call up to the mux operation
C10_Witness ==
    /\ mode = "DRYRUN"
    /\ last.outcome = "dry_run"
    /\ mux_episode(last.ep, "NORMAL", [last.env EXCEPT !.video = TRUE]).outcome = "muxed"

====
